---- MODULE Spec2Model ----
(***************************************************************************)
(* The external-flash driver of ion/src/device/external_flash.cpp:         *)
(* the QUADSPI register file it programs, the flash chip behind it, and    *)
(* the four public operations init, MassErase, EraseSector, WriteMemory,   *)
(* one action per statement.  send_command_full is two steps: the register *)
(* programming and data streaming (lines 91-118), then the exit of the     *)
(* busy loop (lines 124-127).                                              *)
(***************************************************************************)
EXTENDS Integers, Sequences, FiniteSets, TLC

VARIABLES
  defaultOperatingMode, \* the build's DefaultOperatingMode (line 29)
  op,                   \* public operation in flight, or the last one that returned
  pc,                   \* statement of op being executed; "idle" between calls
  sub,                  \* position inside send_command_full: "entry" or "busy"
  arg,                  \* what the caller asked for: [address, length]
  result,               \* what the last call handed back to its caller
  gpio,                 \* alternate function of each QSPI pin
  rcc,                  \* RCC.AHB3ENR.QSPIEN
  dcr,                  \* QUADSPI.DCR: [FSIZE, CSHT]
  cr,                   \* QUADSPI.CR: [PRESCALER, EN]
  ccr,                  \* QUADSPI.CCR as last committed
  configured,           \* QUADSPI.CCR has been written since reset
  dlr,                  \* QUADSPI.DLR
  ar,                   \* QUADSPI.AR
  srBusy,               \* QUADSPI.SR.BUSY
  statusRegister,       \* wait()'s local ExternalFlashStatusRegister (16 bits)
  periphUp,             \* hardware: the peripheral really came up after CR.EN
  chipBusy,             \* flash chip: status bit 0, an erase/program is running
  chipWEL,              \* flash chip: status bit 1, the write-enable latch
  chipStuck,            \* flash chip: a device that never finishes an operation
  log,                  \* history: transactions committed by the call in flight
  polls                 \* history: status reads of the wait in flight (saturating)

vars == <<defaultOperatingMode, op, pc, sub, arg, result, gpio, rcc, dcr, cr,
          ccr, configured, dlr, ar, srBusy, statusRegister, periphUp,
          chipBusy, chipWEL, chipStuck, log, polls>>

driver == <<op, pc, sub, arg, result>>
board  == <<gpio, rcc, dcr, cr>>
qspi   == <<ccr, configured, dlr, ar, srBusy, statusRegister>>
chip   == <<chipBusy, chipWEL>>
hist   == <<log, polls>>
fixed  == <<defaultOperatingMode, chipStuck>>

----------------------------------------------------------------------------
(* Bounds of the model *)

\* the spec's maxAttempts: the number of status reads a bounded wait may make
MaxAttempts == 2
\* status reads of one wait that the history records before it saturates
MaxPolls == MaxAttempts + 2
\* the caller's addresses are 0..MaxAddress, its lengths 0..MaxLength
MaxAddress == 3
MaxLength == 5
\* flash geometry, scaled down: sector size and page-program limit
SectorSize == 2
PageSize == 2
\* a caller of send_command_full passes at most MaxData bytes
MaxData == 2

----------------------------------------------------------------------------
(* Types of the register interface *)

\* sizeof(statusRegister): a Register16
StatusRegisterSize == 2

NullPtr == "nullptr"
StatusRegisterPtr == "&statusRegister"

OperatingModes == {"Single", "Dual", "Quad"}
FunctionalModes == {"IndirectWrite", "IndirectRead", "MemoryMapped"}
QSPIPins == {2, 6, 9}

\* class QUADSPI::CCR ccr(0): every field zero
CCRZero ==
  [FMODE |-> "IndirectWrite", DMODE |-> "NoData", DCYC |-> 0,
   ADMODE |-> "NoData", ADSIZE |-> "OneByte", IMODE |-> "NoData",
   INSTRUCTION |-> "0x00"]

\* The functional mode of the driver's state machine: Uninitialized until the
\* first CCR commit, then the FMODE field of CCR.
FunctionalMode == IF configured THEN ccr.FMODE ELSE "Uninitialized"

----------------------------------------------------------------------------
(* The flash chip and the controller's data register *)

\* The chip's status byte: bit 0 BUSY, bit 1 the write-enable latch.
ChipStatus == (IF chipBusy THEN 1 ELSE 0) + (IF chipWEL THEN 2 ELSE 0)

\* The bytes QUADSPI.DR()->get() hands out, one per read: the chip repeats
\* its status byte for as long as it is clocked, and for ReadData it sends
\* the bytes of the flash (here byte i holds i); a peripheral that is not up
\* reads as zero.
DRGet(c, n) ==
  [i \in 1..n |-> IF periphUp /\ c = "ReadStatusRegister" THEN ChipStatus
                  ELSE IF periphUp /\ c = "ReadData" THEN i
                  ELSE 0]

\* mutant: the loop bound taken from the data-length register (length - 1)
Bytes_short(value, n) == [i \in 1..(n - 1) |-> (value \div (256 ^ (i - 1))) % 256]

\* The caller's buffer as bytes, and back (little-endian Register16).
Bytes(value, n) == [i \in 1..n |-> (value \div (256 ^ (i - 1))) % 256]
RECURSIVE Value(_)
Value(bytes) ==
  IF bytes = <<>> THEN 0 ELSE bytes[1] + 256 * Value(Tail(bytes))

\* mutant: the busy flag looked up at bit 1
getBUSY_bit1(reg) == (reg \div 2) % 2 = 1

\* REGS_BOOL_FIELD(BUSY, 0) of wait()'s status register
getBUSY(reg) == reg % 2 = 1

Destructive == {"ChipErase", "SectorErase", "PageProgram"}

\* What a command does to the chip once the controller has sent it.
ChipAfter(functionalMode, c) ==
  IF ~periphUp \/ functionalMode # "IndirectWrite" \/ chipBusy
  THEN <<chipBusy, chipWEL>>
  ELSE IF c = "WriteEnable" THEN <<chipBusy, TRUE>>
  ELSE IF c \in Destructive /\ chipWEL THEN <<TRUE, chipWEL>>
  ELSE <<chipBusy, chipWEL>>

----------------------------------------------------------------------------
(* send_command_full, lines 90-128 *)

\* mutant: the data phase always at Quad width
CCRValue_mixed(functionalMode, operatingMode, c, address, dummyCycles, data) ==
  LET dataPhase == data # NullPtr \/ functionalMode = "MemoryMapped"
      addressPhase == address # 0 \/ functionalMode = "MemoryMapped"
  IN [FMODE |-> functionalMode,
      DMODE |-> IF dataPhase THEN "Quad" ELSE CCRZero.DMODE,
      DCYC |-> dummyCycles,
      ADMODE |-> IF addressPhase THEN operatingMode ELSE CCRZero.ADMODE,
      ADSIZE |-> IF addressPhase THEN "ThreeBytes" ELSE CCRZero.ADSIZE,
      IMODE |-> operatingMode,
      INSTRUCTION |-> c]

\* mutant: the configuration built on the register's current value
CCRValue_incremental(functionalMode, operatingMode, c, address, dummyCycles, data) ==
  LET dataPhase == data # NullPtr \/ functionalMode = "MemoryMapped"
      addressPhase == address # 0 \/ functionalMode = "MemoryMapped"
  IN [FMODE |-> functionalMode,
      DMODE |-> IF dataPhase THEN operatingMode ELSE ccr.DMODE,
      DCYC |-> dummyCycles,
      ADMODE |-> IF addressPhase THEN operatingMode ELSE ccr.ADMODE,
      ADSIZE |-> IF addressPhase THEN "ThreeBytes" ELSE ccr.ADSIZE,
      IMODE |-> operatingMode,
      INSTRUCTION |-> c]

\* lines 91-103: the command configuration built from zero
CCRValue(functionalMode, operatingMode, c, address, dummyCycles, data) ==
  LET dataPhase == data # NullPtr \/ functionalMode = "MemoryMapped"
      addressPhase == address # 0 \/ functionalMode = "MemoryMapped"
  IN [FMODE |-> functionalMode,
      DMODE |-> IF dataPhase THEN operatingMode ELSE CCRZero.DMODE,
      DCYC |-> dummyCycles,
      ADMODE |-> IF addressPhase THEN operatingMode ELSE CCRZero.ADMODE,
      ADSIZE |-> IF addressPhase THEN "ThreeBytes" ELSE CCRZero.ADSIZE,
      IMODE |-> operatingMode,
      INSTRUCTION |-> c]

\* mutant: the length itself in the data-length register
DLRValue_raw(dataLength) == dataLength

\* line 96
DLRValue(dataLength) == IF dataLength > 0 THEN dataLength - 1 ELSE 0

\* The history entry of one transaction: what was committed and streamed.
Transaction(functionalMode, operatingMode, c, address, dummyCycles, data, dataLength) ==
  [ccr |-> CCRValue(functionalMode, operatingMode, c, address, dummyCycles, data),
   dlr |-> DLRValue(dataLength),
   ar |-> IF address # 0 THEN address ELSE -1,
   drSet |-> IF functionalMode = "IndirectWrite" /\ data # NullPtr
             THEN Bytes(statusRegister, dataLength) ELSE <<>>,
   drGet |-> IF functionalMode = "IndirectRead"
             THEN DRGet(c, dataLength) ELSE <<>>]

IsPoll(t) == t.ccr.INSTRUCTION = "ReadStatusRegister"

\* The history keeps the first MaxPolls status reads of a wait; once full,
\* the latest read replaces the last one kept.
Logged(t) ==
  IF IsPoll(t) /\ polls >= MaxPolls
  THEN [log EXCEPT ![Len(log)] = t]
  ELSE Append(log, t)

\* lines 91-118: program DLR, CCR and AR, then stream the data.  The only
\* buffer a caller of this file passes is wait()'s status register.
send_command_full(functionalMode, operatingMode, c, address, dummyCycles, data, dataLength) ==
  LET t == Transaction(functionalMode, operatingMode, c, address, dummyCycles, data, dataLength)
  IN /\ sub = "entry"
     /\ dlr' = t.dlr
     /\ ccr' = t.ccr
     /\ configured' = TRUE
     /\ ar' = IF address # 0 THEN address ELSE ar
     \* lines 115-117: data[i] for i < dataLength; the rest of the buffer stays
     /\ statusRegister' =
          IF functionalMode = "IndirectRead" /\ data = StatusRegisterPtr
          THEN Value(t.drGet)
                 + (statusRegister \div (256 ^ dataLength)) * (256 ^ dataLength)
          ELSE statusRegister
     /\ srBusy' = periphUp
     /\ chipBusy' = ChipAfter(functionalMode, c)[1]
     /\ chipWEL' = ChipAfter(functionalMode, c)[2]
     /\ log' = Logged(t)
     /\ polls' = IF IsPoll(t) /\ polls < MaxPolls THEN polls + 1 ELSE polls
     \* lines 124-127: only an indirect transaction waits for SR.BUSY
     /\ sub' = IF functionalMode # "MemoryMapped" THEN "busy" ELSE "entry"
     /\ UNCHANGED <<op, arg, board, periphUp, fixed>>

\* lines 33-40
send_command(c) ==
  send_command_full("IndirectWrite", defaultOperatingMode, c, 0, 0, NullPtr, 0)

\* mutant: the mode-switch command framed at the default width
send_command_single_default(c) ==
  send_command_full("IndirectWrite", defaultOperatingMode, c, 0, 0, NullPtr, 0)

\* lines 42-49
send_command_single(c) ==
  send_command_full("IndirectWrite", "Single", c, 0, 0, NullPtr, 0)

\* lines 51-58
send_write_command(c, address, data, dataLength) ==
  send_command_full("IndirectWrite", defaultOperatingMode, c, address, 0, data, dataLength)

\* lines 60-67
send_read_command(c, address, data, dataLength) ==
  send_command_full("IndirectRead", defaultOperatingMode, c, address, 0, data, dataLength)

\* mutant: the last transaction leaves the controller in an indirect mode
set_as_memory_mapped_indirect ==
  send_command_full("IndirectRead", defaultOperatingMode, "ReadData", 0, 0, NullPtr, 0)

\* lines 81-88
set_as_memory_mapped ==
  send_command_full("MemoryMapped", defaultOperatingMode, "ReadData", 0, 0, NullPtr, 0)

\* mutant: the return without the busy loop
Continue_nowait(next) ==
  /\ sub = "busy"
  /\ pc' = next
  /\ sub' = "entry"
  /\ statusRegister' = IF next = "wait" THEN 0 ELSE statusRegister
  /\ polls' = 0
  /\ UNCHANGED <<op, arg, result, board, ccr, configured, dlr, ar, srBusy,
                 periphUp, chip, log, fixed>>

\* lines 124-127: the busy loop is left once SR.BUSY reads clear, and the
\* caller goes on with its statement `next`.  (While SR.BUSY reads set the
\* loop spins without changing anything.)
Continue(next) ==
  /\ sub = "busy"
  /\ ~srBusy
  /\ pc' = next
  /\ sub' = "entry"
  \* line 75, on entering wait(): ExternalFlashStatusRegister statusRegister(0)
  /\ statusRegister' = IF next = "wait" THEN 0 ELSE statusRegister
  /\ polls' = 0
  /\ UNCHANGED <<op, arg, result, board, ccr, configured, dlr, ar, srBusy,
                 periphUp, chip, log, fixed>>

\* the public function returns to its caller (all are void)
Return ==
  /\ pc' = "idle"
  /\ result' = "void"

\* mutant: a single status read, whatever it shows
wait_once(next) ==
  \/ /\ sub = "entry"
     /\ send_read_command("ReadStatusRegister", 0, StatusRegisterPtr, StatusRegisterSize)
     /\ UNCHANGED <<pc, result>>
  \/ /\ sub = "busy"
     /\ ~srBusy
     /\ pc' = next
     /\ sub' = "entry"
     /\ UNCHANGED <<op, arg, result, board, qspi, periphUp, chip, hist, fixed>>

\* lines 69-79: statusRegister(0); do { poll } while (statusRegister.getBUSY())
wait(next) ==
  \/ /\ sub = "entry"
     /\ send_read_command("ReadStatusRegister", 0, StatusRegisterPtr, StatusRegisterSize)
     /\ UNCHANGED <<pc, result>>
  \/ /\ sub = "busy"
     /\ ~srBusy
     /\ pc' = IF getBUSY(statusRegister) THEN pc ELSE next
     /\ sub' = "entry"
     /\ UNCHANGED <<op, arg, result, board, qspi, periphUp, chip, hist, fixed>>

----------------------------------------------------------------------------
(* init, lines 130-162 *)

\* mutant: the chip commands run before the controller is configured
initGPIO_thenChip ==
  /\ pc = "initGPIO"
  /\ gpio' = [g \in QSPIPins |-> IF g = 6 THEN "AF10" ELSE "AF9"]
  /\ pc' = "initChip"
  /\ UNCHANGED <<op, sub, arg, result, rcc, dcr, cr, qspi, periphUp, chip, hist, fixed>>

\* lines 136-141: every QSPI pin to its alternate function
initGPIO ==
  /\ pc = "initGPIO"
  /\ gpio' = [g \in QSPIPins |-> IF g = 6 THEN "AF10" ELSE "AF9"]
  /\ pc' = "setQSPIEN"
  /\ UNCHANGED <<op, sub, arg, result, rcc, dcr, cr, qspi, periphUp, chip, hist, fixed>>

\* lines 143-153, one register write per step.  Whether the peripheral
\* comes up after CR.EN is set is the hardware's choice; the code does not
\* read it back.
initQSPI ==
  /\ \/ /\ pc = "setQSPIEN"
        /\ rcc' = TRUE
        /\ pc' = "setFSIZE"
        /\ UNCHANGED <<dcr, cr, periphUp>>
     \/ /\ pc = "setFSIZE"
        /\ dcr' = [dcr EXCEPT !.FSIZE = "FlashNumberOfAddressBits-1"]
        /\ pc' = "setCSHT"
        /\ UNCHANGED <<rcc, cr, periphUp>>
     \/ /\ pc = "setCSHT"
        /\ dcr' = [dcr EXCEPT !.CSHT = 7]
        /\ pc' = "setPRESCALER"
        /\ UNCHANGED <<rcc, cr, periphUp>>
     \/ /\ pc = "setPRESCALER"
        /\ cr' = [cr EXCEPT !.PRESCALER = 255]
        /\ pc' = "setEN"
        /\ UNCHANGED <<rcc, dcr, periphUp>>
     \/ /\ pc = "setEN"
        /\ cr' = [cr EXCEPT !.EN = TRUE]
        /\ \E up \in BOOLEAN : periphUp' = (rcc /\ up)
        /\ pc' = "initChip"
        /\ UNCHANGED <<rcc, dcr>>
  /\ UNCHANGED <<op, sub, arg, result, gpio, qspi, chip, hist, fixed>>

\* lines 155-162
initChip ==
  \/ /\ pc = "initChip"
     /\ pc' = IF defaultOperatingMode = "Quad" THEN "EnableQPI" ELSE "set_as_memory_mapped"
     /\ UNCHANGED <<op, sub, arg, result, board, qspi, periphUp, chip, hist, fixed>>
  \/ /\ pc = "EnableQPI"
     /\ send_command_single("EnableQPI")
     /\ UNCHANGED <<pc, result>>
  \/ /\ pc = "EnableQPI"
     /\ Continue("set_as_memory_mapped")
  \/ /\ pc = "set_as_memory_mapped"
     /\ set_as_memory_mapped
     /\ Return

\* lines 130-134
init ==
  /\ op = "init"
  /\ (initGPIO \/ initQSPI \/ initChip)

----------------------------------------------------------------------------
(* The maintenance operations, lines 164-185 *)

\* mutant: the erase command sent before the write enable
MassErase_swapped ==
  /\ op = "MassErase"
  /\ \/ /\ pc = "WriteEnable"
        /\ send_command("ChipErase")
        /\ UNCHANGED <<pc, result>>
     \/ /\ pc = "WriteEnable"
        /\ Continue("ChipErase")
     \/ /\ pc = "ChipErase"
        /\ send_command("WriteEnable")
        /\ UNCHANGED <<pc, result>>
     \/ /\ pc = "ChipErase"
        /\ Continue("wait")
     \/ /\ pc = "wait"
        /\ wait("set_as_memory_mapped")
     \/ /\ pc = "set_as_memory_mapped"
        /\ set_as_memory_mapped
        /\ Return

\* lines 164-170
MassErase ==
  /\ op = "MassErase"
  /\ \/ /\ pc = "WriteEnable"
        /\ send_command("WriteEnable")
        /\ UNCHANGED <<pc, result>>
     \/ /\ pc = "WriteEnable"
        /\ Continue("ChipErase")
     \/ /\ pc = "ChipErase"
        /\ send_command("ChipErase")
        /\ UNCHANGED <<pc, result>>
     \/ /\ pc = "ChipErase"
        /\ Continue("wait")
     \/ /\ pc = "wait"
        /\ wait("set_as_memory_mapped")
     \/ /\ pc = "set_as_memory_mapped"
        /\ set_as_memory_mapped
        /\ Return

\* lines 172-177: the function takes no address; the erase command is
\* commented out
EraseSector ==
  /\ op = "EraseSector"
  /\ \/ /\ pc = "WriteEnable"
        /\ send_command("WriteEnable")
        /\ UNCHANGED <<pc, result>>
     \/ /\ pc = "WriteEnable"
        /\ Continue("wait")
     \/ /\ pc = "wait"
        /\ wait("set_as_memory_mapped")
     \/ /\ pc = "set_as_memory_mapped"
        /\ set_as_memory_mapped
        /\ Return

\* lines 179-185: source, destination and length are not used; the program
\* command is commented out
WriteMemory ==
  /\ op = "WriteMemory"
  /\ \/ /\ pc = "WriteEnable"
        /\ send_command("WriteEnable")
        /\ UNCHANGED <<pc, result>>
     \/ /\ pc = "WriteEnable"
        /\ Continue("wait")
     \/ /\ pc = "wait"
        /\ wait("set_as_memory_mapped")
     \/ /\ pc = "set_as_memory_mapped"
        /\ set_as_memory_mapped
        /\ Return

----------------------------------------------------------------------------
(* The caller and the hardware *)

NoArg == [address |-> 0, length |-> 0]

\* The firmware calls one public function at a time: init() once at boot,
\* then the maintenance operations in any order, with any arguments.
Call ==
  /\ pc = "idle"
  /\ \/ /\ op = "none"
        /\ op' = "init"
        /\ pc' = "initGPIO"
        /\ arg' = NoArg
     \/ /\ op # "none"
        /\ op' = "MassErase"
        /\ pc' = "WriteEnable"
        /\ arg' = NoArg
     \/ /\ op # "none"
        /\ op' = "EraseSector"
        /\ pc' = "WriteEnable"
        /\ \E a \in 0..MaxAddress : arg' = [address |-> a, length |-> 0]
     \/ /\ op # "none"
        /\ op' = "WriteMemory"
        /\ pc' = "WriteEnable"
        /\ \E a \in 0..MaxAddress, n \in 0..MaxLength :
             arg' = [address |-> a, length |-> n]
  /\ result' = "none"
  /\ log' = <<>>
  /\ polls' = 0
  /\ UNCHANGED <<sub, board, qspi, periphUp, chip, fixed>>

\* The controller has sent the transaction: SR.BUSY falls.  In memory-mapped
\* mode it does not fall (comment at lines 120-123).
BusyFalls ==
  /\ srBusy
  /\ ccr.FMODE # "MemoryMapped"
  /\ srBusy' = FALSE
  /\ UNCHANGED <<driver, board, ccr, configured, dlr, ar, statusRegister,
                 periphUp, chip, hist, fixed>>

\* The chip finishes its erase or program: BUSY and the latch clear.
ChipDone ==
  /\ chipBusy
  /\ ~chipStuck
  /\ chipBusy' = FALSE
  /\ chipWEL' = FALSE
  /\ UNCHANGED <<driver, board, qspi, periphUp, hist, fixed>>

----------------------------------------------------------------------------

Init ==
  /\ defaultOperatingMode \in OperatingModes
  /\ chipStuck \in BOOLEAN
  /\ op = "none"
  /\ pc = "idle"
  /\ sub = "entry"
  /\ arg = NoArg
  /\ result = "none"
  /\ gpio = [g \in QSPIPins |-> "Reset"]
  /\ rcc = FALSE
  /\ dcr = [FSIZE |-> "0", CSHT |-> 0]
  /\ cr = [PRESCALER |-> 0, EN |-> FALSE]
  /\ ccr = CCRZero
  /\ configured = FALSE
  /\ dlr = 0
  /\ ar = 0
  /\ srBusy = FALSE
  /\ statusRegister = 0
  /\ periphUp = FALSE
  /\ chipBusy = FALSE
  /\ chipWEL = FALSE
  /\ log = <<>>
  /\ polls = 0

Next ==
  \/ Call
  \/ init
  \/ MassErase
  \/ EraseSector
  \/ WriteMemory
  \/ BusyFalls
  \/ ChipDone

Spec == Init /\ [][Next]_vars

\* The processor keeps executing the call in flight, the controller finishes
\* sending each indirect transaction, and a chip that is not stuck finishes
\* its operation.
FairSpec ==
  /\ Spec
  /\ WF_vars(init \/ MassErase \/ EraseSector \/ WriteMemory)
  /\ WF_vars(BusyFalls)
  /\ WF_vars(ChipDone)

----------------------------------------------------------------------------
(* send_command_full alone, on every argument list a caller can pass *)

\* The arguments of one call.  The signature has no way to say "no
\* address": a caller that has none passes 0 (lines 38, 47, 77, 86), so
\* hasAddress records whether the caller means the value as an address.  A
\* caller with no buffer passes nullptr and length 0; `buffer` is the
\* content of the buffer `data` points to.
TxInputs ==
  { [functionalMode |-> f, operatingMode |-> o, c |-> c,
     hasAddress |-> h, address |-> a, dummyCycles |-> d,
     data |-> p, dataLength |-> n, buffer |-> b] :
      f \in FunctionalModes, o \in OperatingModes,
      c \in {"WriteEnable", "PageProgram", "ReadStatusRegister", "ReadData"},
      h \in BOOLEAN, a \in 0..MaxAddress, d \in {0, 8},
      p \in {NullPtr, StatusRegisterPtr}, n \in 0..MaxData,
      b \in {0, 513, 197121} }

TxInit ==
  /\ defaultOperatingMode = "Single"
  /\ chipStuck = FALSE
  /\ op = "send_command_full"
  /\ pc = "call"
  /\ sub = "entry"
  /\ arg \in TxInputs
  /\ ~arg.hasAddress => arg.address = 0
  /\ arg.data = NullPtr => (arg.dataLength = 0 /\ arg.buffer = 0)
  /\ result = "none"
  /\ gpio = [g \in QSPIPins |-> IF g = 6 THEN "AF10" ELSE "AF9"]
  /\ rcc = TRUE
  /\ dcr = [FSIZE |-> "FlashNumberOfAddressBits-1", CSHT |-> 7]
  /\ cr = [PRESCALER |-> 255, EN |-> TRUE]
  \* the previous transaction: the MemoryMapped configuration or a status poll
  /\ \/ /\ ccr = CCRValue("MemoryMapped", "Quad", "ReadData", 0, 0, NullPtr)
        /\ dlr = 0
     \/ /\ ccr = CCRValue("IndirectRead", "Dual", "ReadStatusRegister", 0, 0, StatusRegisterPtr)
        /\ dlr = 1
  /\ configured = TRUE
  /\ ar = 0
  /\ srBusy = FALSE
  /\ statusRegister = arg.buffer
  /\ periphUp \in BOOLEAN
  /\ chipBusy = FALSE
  /\ chipWEL = FALSE
  /\ log = <<>>
  /\ polls = 0

\* lines 90-118 of the call; a MemoryMapped call returns at once
TxCall ==
  /\ op = "send_command_full"
  /\ pc = "call"
  /\ send_command_full(arg.functionalMode, arg.operatingMode, arg.c, arg.address,
                       arg.dummyCycles, arg.data, arg.dataLength)
  /\ pc' = IF arg.functionalMode = "MemoryMapped" THEN "done" ELSE pc
  /\ UNCHANGED result

\* lines 124-128 of the call
TxReturn ==
  /\ op = "send_command_full"
  /\ pc = "call"
  /\ Continue("done")

TxNext ==
  \/ TxCall
  \/ TxReturn
  \/ BusyFalls

TxSpec == TxInit /\ [][TxNext]_vars

----------------------------------------------------------------------------
(* Vocabulary of the properties *)

Last(s) == s[Len(s)]

\* a bare command: indirect write, instruction phase only
IsCommand(t, c) ==
  /\ t.ccr.INSTRUCTION = c
  /\ t.ccr.FMODE = "IndirectWrite"
  /\ t.ccr.ADMODE = "NoData"
  /\ t.ccr.DMODE = "NoData"
  /\ t.ar = -1
  /\ t.dlr = 0
  /\ t.drSet = <<>>
  /\ t.drGet = <<>>

IsStatusPoll(t) ==
  /\ t.ccr.INSTRUCTION = "ReadStatusRegister"
  /\ t.ccr.FMODE = "IndirectRead"

\* the busy flag as the poll read it: bit 0 of the first byte
PollReadBusy(t) == t.drGet[1] % 2 = 1

IsMemoryMappedConfig(t) ==
  /\ t.ccr.INSTRUCTION = "ReadData"
  /\ t.ccr.FMODE = "MemoryMapped"

Indirect == {"IndirectWrite", "IndirectRead"}
Maintenance == {"MassErase", "EraseSector", "WriteMemory"}

Count(c) == Cardinality({i \in 1..Len(log) : log[i].ccr.INSTRUCTION = c})

\* the chunks writeMemory is specified to program: none longer than the
\* page-program limit, none crossing a page boundary
RECURSIVE NumChunks(_, _)
NumChunks(destination, length) ==
  IF length = 0 THEN 0
  ELSE LET room == PageSize - (destination % PageSize)
           n == IF length < room THEN length ELSE room
       IN 1 + NumChunks(destination + n, length - n)

----------------------------------------------------------------------------
(* Properties *)

\* C1: after initialization, whenever no public operation is in flight the
\* functional mode is MemoryMapped; every call of a maintenance operation
\* that has returned committed the MemoryMapped configuration last; and the
\* controller is in an indirect mode only while a call is in flight, after
\* its first indirect command and before any MemoryMapped configuration.
C1_MemoryMappedBetweenCalls ==
  /\ (pc = "idle" /\ op # "none") => FunctionalMode = "MemoryMapped"
  /\ (pc = "idle" /\ op \in Maintenance) =>
       /\ log # <<>>
       /\ IsMemoryMappedConfig(Last(log))
       /\ ccr = Last(log).ccr
  /\ FunctionalMode \in Indirect =>
       /\ pc # "idle"
       /\ log # <<>>
       /\ \A i \in 1..Len(log) : log[i].ccr.FMODE \in Indirect

C1_Witness ==
  /\ op = "MassErase"
  /\ pc = "idle"
  /\ result = "void"
  /\ FunctionalMode = "MemoryMapped"
  /\ Len(log) >= 4

\* C2: the busy-wait never makes more than maxAttempts status reads, and a
\* call whose wait used them all up with the flag still set returns Timeout.
C2_WaitBounded ==
  /\ polls <= MaxAttempts
  /\ (pc = "idle" /\ op \in Maintenance /\ polls = MaxAttempts
        /\ PollReadBusy(log[Len(log) - 1])) => result = "Timeout"

\* C3: MassErase on a device whose busy flag never clears eventually returns
\* Timeout to its caller, with the functional mode MemoryMapped.
C3_MassEraseTimesOut ==
  (op = "MassErase" /\ pc = "wait" /\ periphUp /\ chipStuck /\ chipBusy)
    ~> (pc = "idle" /\ result = "Timeout" /\ FunctionalMode = "MemoryMapped")

\* C4: the transactions of a MassErase call are, in order and with no
\* others: one WriteEnable (indirect write, no address, no data), one
\* ChipErase, one or more status polls of which every one but the last read
\* the busy flag set and the last read it clear, then the MemoryMapped
\* ReadData configuration.
C4_MassEraseSequence ==
  op = "MassErase" =>
    LET n == Len(log) IN
    /\ n >= 1 => IsCommand(log[1], "WriteEnable")
    /\ n >= 2 => IsCommand(log[2], "ChipErase")
    /\ \A i \in 3..n :
         \/ IsStatusPoll(log[i])
         \/ /\ i = n
            /\ i >= 4
            /\ IsMemoryMappedConfig(log[i])
            /\ IsStatusPoll(log[i - 1])
            /\ ~PollReadBusy(log[i - 1])
    /\ \A i \in 3..(n - 1) :
         IsStatusPoll(log[i + 1]) => (IsStatusPoll(log[i]) /\ PollReadBusy(log[i]))
    /\ pc = "idle" => (n >= 4 /\ IsMemoryMappedConfig(log[n]))
    /\ pc = "WriteEnable" => n <= 1
    /\ pc = "ChipErase" => n \in {1, 2}

C4_Witness ==
  /\ op = "MassErase"
  /\ pc = "idle"
  /\ Len(log) >= 5
  /\ PollReadBusy(log[3])

\* C5: an eraseSector call with an aligned address issues, after WriteEnable
\* and before the first status poll, a SectorErase for the requested sector.
C5_SectorEraseIssued ==
  (op = "EraseSector" /\ arg.address % SectorSize = 0 /\ Len(log) >= 2) =>
    /\ IsCommand(log[1], "WriteEnable")
    /\ log[2].ccr.INSTRUCTION = "SectorErase"
    /\ log[2].ccr.FMODE = "IndirectWrite"
    /\ (arg.address # 0 => log[2].ar = arg.address)

\* C6: a writeMemory call that has returned issued exactly one WriteEnable
\* and one PageProgram per chunk of its data.
C6_WriteMemoryProgramsEveryChunk ==
  (op = "WriteMemory" /\ pc = "idle" /\ arg.length > 0) =>
    /\ Count("PageProgram") = NumChunks(arg.address, arg.length)
    /\ Count("WriteEnable") = NumChunks(arg.address, arg.length)
    /\ IsMemoryMappedConfig(Last(log))

\* C7: eraseSector with an address that is not a multiple of the sector size
\* issues no transaction and returns AlignmentError.
C7_MisalignedRejected ==
  (op = "EraseSector" /\ arg.address % SectorSize # 0) =>
    /\ log = <<>>
    /\ pc = "idle" => result = "AlignmentError"

\* C8: init with the default operating mode Quad issues exactly one
\* EnableQPI, at Single width, before any Quad-width transaction; with
\* another default mode it issues no EnableQPI; in both cases the only other
\* transaction of init is the final MemoryMapped configuration.
C8_EnableQPIOnlyForQuad ==
  op = "init" =>
    LET n == Len(log) IN
    IF defaultOperatingMode = "Quad"
    THEN /\ n <= 2
         /\ n >= 1 => (IsCommand(log[1], "EnableQPI") /\ log[1].ccr.IMODE = "Single")
         /\ n = 2 => (IsMemoryMappedConfig(log[2]) /\ log[2].ccr.IMODE = "Quad")
         /\ pc = "idle" => n = 2
    ELSE /\ n <= 1
         /\ n = 1 => (IsMemoryMappedConfig(log[1])
                       /\ log[1].ccr.IMODE = defaultOperatingMode)
         /\ pc = "idle" => n = 1

C8_Witness ==
  /\ op = "init"
  /\ pc = "idle"
  /\ defaultOperatingMode = "Quad"
  /\ Len(log) = 2

C10_FatalOnEnableFailure ==
  (op = "init" /\ cr.EN /\ ~periphUp) =>
    /\ log = <<>>
    /\ pc = "idle" => result = "FatalError"

\* byte i (from 1) of a little-endian buffer value
ByteOf(value, i) == (value \div (256 ^ (i - 1))) % 256

\* a step of the call in flight
DriverStep == init \/ MassErase \/ EraseSector \/ WriteMemory

\* C11: between a destructive command and the first status read that shows
\* the busy flag clear, the call issues only status polls; and a transaction
\* is committed only when no earlier one is still in its busy loop, the
\* previous indirect one having left it with SR.BUSY clear.
C11_NoOverlappingCommands ==
  /\ [](\A i \in 1..Len(log) :
          log[i].ccr.INSTRUCTION \in Destructive =>
            \A j \in (i + 1)..Len(log) :
              \/ IsStatusPoll(log[j])
              \/ \E k \in (i + 1)..(j - 1) :
                   IsStatusPoll(log[k]) /\ ~PollReadBusy(log[k]))
  /\ [][log' # log =>
          /\ sub = "entry"
          /\ (log # <<>> /\ Last(log).ccr.FMODE \in Indirect) => ~srBusy]_vars

C11_Witness ==
  /\ op = "MassErase"
  /\ pc = "set_as_memory_mapped"
  /\ periphUp
  /\ log[2].ccr.INSTRUCTION = "ChipErase"
  /\ Len(log) >= 4
  /\ PollReadBusy(log[3])
  /\ ~PollReadBusy(Last(log))

\* C12: the address phase is enabled, at the call's width and three bytes,
\* exactly when the caller has an address or the mode is MemoryMapped, and
\* the address register is written, with that address, exactly when the
\* caller has one; address 0 included.
C12_AddressPhase ==
  log # <<>> =>
    LET t == log[1] IN
    /\ t.ccr.ADMODE # "NoData" <=>
         (arg.hasAddress \/ arg.functionalMode = "MemoryMapped")
    /\ t.ccr.ADMODE # "NoData" =>
         (t.ccr.ADMODE = arg.operatingMode /\ t.ccr.ADSIZE = "ThreeBytes")
    /\ t.ar # -1 <=> arg.hasAddress
    /\ arg.hasAddress => (t.ar = arg.address /\ ar = arg.address)

\* C13: an IndirectWrite call writes the data register dataLength times,
\* with data[0], data[1], ... in that order, and leaves the buffer as it
\* was; an IndirectRead call reads it dataLength times and stores the i-th
\* value read in data[i], leaving the rest of the buffer; a MemoryMapped
\* call neither reads nor writes it and leaves the buffer as it was.
C13_DataStreaming ==
  log # <<>> =>
    LET t == log[1]
        n == arg.dataLength
    IN CASE arg.functionalMode = "IndirectWrite" ->
              /\ Len(t.drSet) = n
              /\ \A i \in 1..n : t.drSet[i] = ByteOf(arg.buffer, i)
              /\ t.drGet = <<>>
              /\ statusRegister = arg.buffer
         [] arg.functionalMode = "IndirectRead" ->
              /\ Len(t.drGet) = n
              /\ \A i \in 1..n : ByteOf(statusRegister, i) = t.drGet[i]
              /\ statusRegister \div (256 ^ n) = arg.buffer \div (256 ^ n)
              /\ t.drSet = <<>>
         [] arg.functionalMode = "MemoryMapped" ->
              /\ t.drSet = <<>>
              /\ t.drGet = <<>>
              /\ statusRegister = arg.buffer

C13_Witness ==
  /\ op = "send_command_full"
  /\ pc = "done"
  /\ arg.functionalMode = "IndirectRead"
  /\ arg.dataLength = 2
  /\ log[1].drGet = <<1, 2>>
  /\ statusRegister # arg.buffer

\* C14: an indirect call has returned only with SR.BUSY clear; a
\* MemoryMapped call never enters the busy loop and has returned with
\* SR.BUSY as the commit left it, set on a live controller.
C14_ReturnAfterBusyClear ==
  /\ arg.functionalMode = "MemoryMapped" => sub = "entry"
  /\ pc = "done" =>
       IF arg.functionalMode = "MemoryMapped"
       THEN srBusy = periphUp
       ELSE ~srBusy /\ sub = "entry"

C14_Witness ==
  /\ op = "send_command_full"
  /\ pc = "done"
  /\ arg.functionalMode = "MemoryMapped"
  /\ srBusy

\* C15 as stated: each poll of the busy-wait is an IndirectRead
\* ReadStatusRegister transaction with no address and a 1-byte payload.
C15_PollOneByte ==
  \A i \in 1..Len(log) :
    IsPoll(log[i]) =>
      /\ log[i].ccr.FMODE = "IndirectRead"
      /\ log[i].ccr.ADMODE = "NoData"
      /\ log[i].ar = -1
      /\ log[i].dlr = 0
      /\ Len(log[i].drGet) = 1

\* C15 as amended: each poll of the busy-wait is an IndirectRead
\* ReadStatusRegister transaction with no address and a 2-byte payload, and
\* the wait polls again exactly when bit 0 of the first byte that poll read
\* is set.
C15_PollTwoBytes ==
  /\ [](\A i \in 1..Len(log) :
          IsPoll(log[i]) =>
            /\ log[i].ccr.FMODE = "IndirectRead"
            /\ log[i].ccr.ADMODE = "NoData"
            /\ log[i].ar = -1
            /\ log[i].dlr = 1
            /\ Len(log[i].drGet) = 2)
  /\ [][(pc = "wait" /\ sub = "busy" /\ sub' = "entry") =>
          (pc' = "wait" <=> PollReadBusy(Last(log)))]_vars

C15_Witness ==
  /\ pc = "wait"
  /\ sub = "busy"
  /\ ~srBusy
  /\ Last(log).drGet = <<2, 2>>

\* C16: the committed configuration has the instruction phase enabled with
\* the command's opcode, and every enabled phase at the width of the call.
C16_UniformWidth ==
  log # <<>> =>
    LET t == log[1].ccr IN
    /\ ccr = t
    /\ t.IMODE = arg.operatingMode
    /\ t.IMODE # "NoData"
    /\ t.INSTRUCTION = arg.c
    /\ t.ADMODE \in {"NoData", arg.operatingMode}
    /\ t.DMODE \in {"NoData", arg.operatingMode}

C16_Witness ==
  /\ op = "send_command_full"
  /\ log # <<>>
  /\ arg.operatingMode = "Dual"
  /\ ccr.ADMODE = "Dual"
  /\ ccr.DMODE = "Dual"
  /\ ccr.IMODE = "Dual"

\* C17: every destructive command is immediately preceded by a WriteEnable
\* of the same call.
C17_WriteEnableFirst ==
  \A i \in 1..Len(log) :
    log[i].ccr.INSTRUCTION \in Destructive =>
      (i > 1 /\ IsCommand(log[i - 1], "WriteEnable"))

C17_Witness ==
  /\ op = "MassErase"
  /\ pc = "ChipErase"
  /\ sub = "busy"
  /\ Len(log) = 2
  /\ log[2].ccr.INSTRUCTION = "ChipErase"

\* C18: a WriteEnable or ChipErase is committed with the address phase and
\* the data phase disabled and no dummy cycles, also right after the
\* MemoryMapped configuration, which has both phases enabled.
C18_BuiltFromZero ==
  /\ \A i \in 1..Len(log) :
       log[i].ccr.INSTRUCTION \in {"WriteEnable", "ChipErase"} =>
         /\ log[i].ccr.ADMODE = "NoData"
         /\ log[i].ccr.ADSIZE = "OneByte"
         /\ log[i].ccr.DMODE = "NoData"
         /\ log[i].ccr.DCYC = 0
  /\ (configured /\ ccr.INSTRUCTION \in {"WriteEnable", "ChipErase"}) =>
       (ccr.ADMODE = "NoData" /\ ccr.DMODE = "NoData" /\ ccr.DCYC = 0)
  /\ (configured /\ ccr.FMODE = "MemoryMapped") =>
       (ccr.ADMODE # "NoData" /\ ccr.DMODE # "NoData")

C18_Witness ==
  /\ op \in Maintenance
  /\ Len(log) = 1
  /\ ccr.INSTRUCTION = "WriteEnable"
  /\ ccr.ADMODE = "NoData"

\* C19: an indirect call with dataLength > 0 streams its data with the data
\* phase enabled and dataLength - 1 in the data-length register; with
\* dataLength 0 the register holds 0 and the data register is not accessed;
\* the data phase is enabled only with a buffer or in MemoryMapped mode.
C19_DataLength ==
  log # <<>> =>
    LET t == log[1]
        n == arg.dataLength
    IN /\ (arg.functionalMode \in Indirect /\ n > 0) =>
            /\ Len(t.drSet) + Len(t.drGet) = n
            /\ t.ccr.DMODE = arg.operatingMode
            /\ t.dlr = n - 1
            /\ dlr = n - 1
       /\ n = 0 => (t.dlr = 0 /\ dlr = 0 /\ t.drSet = <<>> /\ t.drGet = <<>>)
       /\ t.ccr.DMODE # "NoData" =>
            (arg.data # NullPtr \/ arg.functionalMode = "MemoryMapped")

C19_Witness ==
  /\ op = "send_command_full"
  /\ pc = "done"
  /\ arg.functionalMode = "IndirectWrite"
  /\ arg.dataLength = 2
  /\ dlr = 1
  /\ Len(log[1].drSet) = 2

\* C20: a call in flight that cannot take a step is in the busy loop of
\* send_command_full with SR.BUSY set; and with the driver scheduled, SR.BUSY
\* falling after each indirect transaction and the chip finishing, every
\* call returns, unless the chip is stuck busy and the call is in the poll
\* loop of wait.
C20_Termination ==
  /\ [](pc # "idle" => (ENABLED DriverStep \/ (sub = "busy" /\ srBusy)))
  /\ (pc # "idle") ~> (pc = "idle" \/ (pc = "wait" /\ chipStuck /\ chipBusy))

C20_Witness ==
  /\ op = "WriteMemory"
  /\ pc = "idle"
  /\ result = "void"
  /\ periphUp
  /\ ~chipStuck

====
